---- MODULE Spec2Model ----
(***************************************************************************)
(* GStr (src/src/lib.rs): a wrapper around an HGLOBAL handle, its length   *)
(* and an ownership flag.  The model holds the Win32 global heap, the live *)
(* GStr values of a caller, the raw (handle, len) pair the caller read out *)
(* of a wrapper, and the record of the last call.                          *)
(***************************************************************************)
EXTENDS Integers, Sequences, FiniteSets, TLC

(* ------------------------------ bounds --------------------------------- *)
\* number of GStr variables the caller has
MaxGStr == 2
\* number of distinct addresses GlobalAlloc can hand out
MaxHandles == 2
\* longest byte slice an arbitrary caller hands to clone_from_slice_nofree
MaxLen == 1
\* longest text (in characters) of the gstr_test scenario
MaxTextLen == 2
\* longest byte slice of the decoding scenario
MaxRawLen == 3

(* ----------------------------- constants ------------------------------- *)
\* the null HGLOBAL, which GlobalAlloc returns on failure
NULL == 0
GMEM_FIXED == 0

Slots == 1..MaxGStr
Handles == 1..MaxHandles

SeqsUpTo(S, n) == UNION {[1..k -> S] : k \in 0..n}

\* 0x47 'G', 0x80 (a lone continuation byte)
ByteAlphabet == {71, 128}
ByteInputs == SeqsUpTo(ByteAlphabet, MaxLen)
\* and 0xE3, the lead byte of a 3-byte sequence (0xE3 0x80 0x80 is U+3000)
RawAlphabet == {71, 128, 227}
RawInputs == SeqsUpTo(RawAlphabet, MaxRawLen)

VARIABLES
    heap,      \* the global heap: handle -> [state, bytes]
    gstr,      \* slot -> GStr {h, len, has_free}
    live,      \* the slots that hold a GStr that has not been dropped
    held,      \* the raw (handle, len) the caller read with handle() and len()
    last,      \* the last call: its operation, its wrapper, what it returned
    crashed,   \* the process was ended by an access violation or heap fault
    hist,      \* history, per slot: the constructor, the length and the bytes given to
               \* it, and whether a capturing wrapper over the handle was dropped since
    captures,  \* history, per handle: capture calls made on it (0, 1, 2 for more)
    doubleFree,\* history: the handles GlobalFree was called on while not allocated
    test       \* the position and the locals of the gstr_test scenario

vars == <<heap, gstr, live, held, last, crashed, hist, captures, doubleFree, test>>

(* ------------------------------- GStr ---------------------------------- *)
GStr(h, n, has_free) == [h |-> h, len |-> n, has_free |-> has_free]

NoGStr == GStr(NULL, 0, FALSE)
NoHist == [how |-> "none", n |-> 0, B |-> <<>>, stale |-> FALSE]
NoHeld == [set |-> FALSE, h |-> NULL, len |-> 0, B |-> <<>>, stale |-> FALSE]
FreeRegion == [state |-> "free", bytes |-> <<>>]
NoLast == [op |-> "none", slot |-> 0, alloc |-> NULL, freed |-> <<>>, ret |-> 0]

\* GStr::capture: no allocation, always owning
capture_nofree(h, n) == GStr(h, n, FALSE)
capture_len0(h, n) == GStr(h, 0, TRUE)
capture(h, n) == GStr(h, n, TRUE)

\* GStr::handle
handle(w) == w.h

\* GStr::len
len(w) == w.len

\* impl Drop for GStr: the GlobalFree calls drop makes, in order
drop_always(w) == <<w.h>>
drop(w) == IF ~w.has_free THEN <<>> ELSE <<w.h>>

(* ------------------------------ the heap ------------------------------- *)
\* GlobalAlloc(GMEM_FIXED, size): a handle of a region that is not allocated
\* now (an address may be handed out again after it was freed), or NULL.
GlobalAlloc(hp, flags, size) == {NULL} \cup {h \in Handles : hp[h].state # "alloc"}

\* What a read of n bytes of memory that is not allocated may give: any bytes,
\* or an access violation.
Fault == [fault |-> TRUE, bytes |-> <<>>]
Read(b) == [fault |-> FALSE, bytes |-> b]
Undefined(n) == {Fault} \cup {Read(b) : b \in [1..n -> ByteAlphabet]}

\* GStr::to_bytes: from_raw_parts(p, len) over the handle's memory
to_bytes_short(hp, w) ==
    IF w.len = 0 THEN {Read(<<>>)}
    ELSE IF w.h # NULL /\ hp[w.h].state = "alloc" /\ Len(hp[w.h].bytes) >= w.len
         THEN {Read(SubSeq(hp[w.h].bytes, 1, w.len - 1))}
         ELSE IF w.h = NULL THEN {Fault} ELSE Undefined(w.len)
to_bytes(hp, w) ==
    IF w.len = 0 THEN {Read(<<>>)}
    ELSE IF w.h # NULL /\ hp[w.h].state = "alloc" /\ Len(hp[w.h].bytes) >= w.len
         THEN {Read(SubSeq(hp[w.h].bytes, 1, w.len))}
         ELSE IF w.h = NULL THEN {Fault} ELSE Undefined(w.len)

(* ------------------------------- UTF-8 --------------------------------- *)
\* A text is the sequence of its characters (Unicode scalar values).
\* 'G' U+0047, U+00E9 (e acute), U+20AC (euro sign), U+3000 (ideographic space),
\* U+1F600: characters of one, two, three and four bytes in UTF-8
Chars == {71, 233, 8364, 12288, 128512}
Texts == SeqsUpTo(Chars, MaxTextLen)

\* char::encode_utf8
Utf8EncodeChar(c) ==
    IF c < 128 THEN <<c>>
    ELSE IF c < 2048 THEN <<192 + (c \div 64), 128 + (c % 64)>>
    ELSE IF c < 65536
         THEN <<224 + (c \div 4096), 128 + ((c \div 64) % 64), 128 + (c % 64)>>
         ELSE <<240 + (c \div 262144), 128 + ((c \div 4096) % 64),
                128 + ((c \div 64) % 64), 128 + (c % 64)>>

RECURSIVE as_bytes(_)
\* str::as_bytes: the UTF-8 encoding of the text
as_bytes(text) ==
    IF text = <<>> THEN <<>> ELSE Utf8EncodeChar(Head(text)) \o as_bytes(Tail(text))

IsCont(x) == x \in 128..191

Utf8Ok(chars) == [ok |-> TRUE, val |-> chars]
\* Utf8Error { valid_up_to, error_len } (error_len 0: the input ended early)
Utf8Err(valid_up_to, error_len) ==
    [ok |-> FALSE, valid_up_to |-> valid_up_to, error_len |-> error_len]

\* The range the second byte of a 3- or 4-byte sequence must lie in.
SecondByteOk(first, second) ==
    CASE first = 224 -> second \in 160..191
      [] first \in 225..236 -> second \in 128..191
      [] first = 237 -> second \in 128..159
      [] first \in 238..239 -> second \in 128..191
      [] first = 240 -> second \in 144..191
      [] first \in 241..243 -> second \in 128..191
      [] first = 244 -> second \in 128..143
      [] OTHER -> FALSE

RECURSIVE from_utf8_at(_, _, _)
\* str::from_utf8 from byte i on (1-based), acc the characters decoded so far
from_utf8_at(b, i, acc) ==
    IF i > Len(b) THEN Utf8Ok(acc)
    ELSE LET first == b[i]
             n == Len(b)
         IN  IF first < 128 THEN from_utf8_at(b, i + 1, Append(acc, first))
             ELSE IF first \in 194..223
             THEN IF i + 1 > n THEN Utf8Err(i - 1, 0)
                  ELSE IF ~IsCont(b[i + 1]) THEN Utf8Err(i - 1, 1)
                  ELSE from_utf8_at(b, i + 2,
                           Append(acc, (first - 192) * 64 + (b[i + 1] - 128)))
             ELSE IF first \in 224..239
             THEN IF i + 1 > n THEN Utf8Err(i - 1, 0)
                  ELSE IF ~SecondByteOk(first, b[i + 1]) THEN Utf8Err(i - 1, 1)
                  ELSE IF i + 2 > n THEN Utf8Err(i - 1, 0)
                  ELSE IF ~IsCont(b[i + 2]) THEN Utf8Err(i - 1, 2)
                  ELSE from_utf8_at(b, i + 3,
                           Append(acc, (first - 224) * 4096 + (b[i + 1] - 128) * 64
                                       + (b[i + 2] - 128)))
             ELSE IF first \in 240..244
             THEN IF i + 1 > n THEN Utf8Err(i - 1, 0)
                  ELSE IF ~SecondByteOk(first, b[i + 1]) THEN Utf8Err(i - 1, 1)
                  ELSE IF i + 2 > n THEN Utf8Err(i - 1, 0)
                  ELSE IF ~IsCont(b[i + 2]) THEN Utf8Err(i - 1, 2)
                  ELSE IF i + 3 > n THEN Utf8Err(i - 1, 0)
                  ELSE IF ~IsCont(b[i + 3]) THEN Utf8Err(i - 1, 3)
                  ELSE from_utf8_at(b, i + 4,
                           Append(acc, (first - 240) * 262144 + (b[i + 1] - 128) * 4096
                                       + (b[i + 2] - 128) * 64 + (b[i + 3] - 128)))
             ELSE Utf8Err(i - 1, 1)

\* str::from_utf8
from_utf8(b) == from_utf8_at(b, 1, <<>>)

(* ------------------------------ GStrError ------------------------------ *)
Ok(v) == [ok |-> TRUE, val |-> v, err |-> "none", valid_up_to |-> 0, error_len |-> 0]
\* GStrError::AnsiEncode
AnsiEncode == [ok |-> FALSE, val |-> <<>>, err |-> "AnsiEncode", valid_up_to |-> 0,
               error_len |-> 0]
\* impl From<Utf8Error> for GStrError
GStrError_from(e) ==
    [ok |-> FALSE, val |-> <<>>, err |-> "Utf8Error", valid_up_to |-> e.valid_up_to,
     error_len |-> e.error_len]

\* GStr::to_utf8_str on the bytes to_bytes gave: Ok(str::from_utf8(bytes)?)
to_utf8_str_lossy(bytes) ==
    LET r == from_utf8(bytes)
    IN  IF r.ok THEN Ok(r.val) ELSE Ok(from_utf8(SubSeq(bytes, 1, r.valid_up_to)).val)
to_utf8_str(bytes) ==
    LET r == from_utf8(bytes) IN IF r.ok THEN Ok(r.val) ELSE GStrError_from(r)

(* ------------------------- the legacy codepage ------------------------- *)
\* The converter of mod enc, for a codepage of one byte per ASCII character
\* and two bytes per wide character (U+3000 is 0x81 0x40).
LegacyWide == {<<12288, <<129, 64>>>>}
IsLead(x) == x \in 129..159 \/ x \in 224..252

LegacyEncodeChar(c) ==
    IF c < 128 THEN <<<<c>>>>
    ELSE IF \E p \in LegacyWide : p[1] = c
         THEN <<(CHOOSE p \in LegacyWide : p[1] = c)[2]>>
         ELSE <<>>

RECURSIVE Encoding_to_bytes(_)
\* Encoding::ANSI.to_bytes(text): the legacy bytes, or an error
Encoding_to_bytes(text) ==
    IF text = <<>> THEN [ok |-> TRUE, val |-> <<>>]
    ELSE LET c == LegacyEncodeChar(Head(text))
             rest == Encoding_to_bytes(Tail(text))
         IN  IF c = <<>> \/ ~rest.ok THEN [ok |-> FALSE, val |-> <<>>]
             ELSE [ok |-> TRUE, val |-> c[1] \o rest.val]

RECURSIVE Encoding_to_string_at(_, _, _)
Encoding_to_string_at(b, i, acc) ==
    IF i > Len(b) THEN [ok |-> TRUE, val |-> acc]
    ELSE IF b[i] < 128 THEN Encoding_to_string_at(b, i + 1, Append(acc, b[i]))
    ELSE IF IsLead(b[i]) /\ i + 1 <= Len(b)
            /\ \E p \in LegacyWide : p[2] = <<b[i], b[i + 1]>>
         THEN Encoding_to_string_at(b, i + 2,
                  Append(acc, (CHOOSE p \in LegacyWide : p[2] = <<b[i], b[i + 1]>>)[1]))
         ELSE [ok |-> FALSE, val |-> <<>>]

\* Encoding::ANSI.to_string(bytes): the text, or an error
Encoding_to_string(b) == Encoding_to_string_at(b, 1, <<>>)

\* OsString::from(String): the same text, held as its WTF-8 bytes
OsString_from(s) == as_bytes(s)
\* OsStr::to_str
OsStr_to_str(os) == from_utf8(os)

\* GStr::to_ansi_str on the bytes to_bytes gave
to_ansi_str_as_utf8(bytes) ==
    LET s == from_utf8(bytes)
    IN  IF ~s.ok THEN AnsiEncode ELSE Ok(OsString_from(s.val))
to_ansi_str(bytes) ==
    LET s == Encoding_to_string(bytes)
    IN  IF ~s.ok THEN AnsiEncode ELSE Ok(OsString_from(s.val))

(* ------------------------- clone_from_slice_impl ----------------------- *)
\* The outcomes of clone_from_slice_impl(bytes, has_free): GlobalAlloc's handle
\* is not checked.  Copying into the null handle is an access violation when
\* there is a byte to copy, and copies nothing when the slice is empty.
clone_from_slice_impl_short(hp, bytes, has_free) ==
    LET n == Len(bytes)
    IN  { IF h = NULL /\ n > 0
          THEN [crash |-> TRUE, h |-> h, region |-> FreeRegion, w |-> NoGStr]
          ELSE [crash |-> FALSE, h |-> h,
                region |-> [state |-> "alloc",
                            bytes |-> SubSeq(bytes, 1, IF n > 0 THEN n - 1 ELSE 0)],
                w |-> GStr(h, n, has_free)]
          : h \in GlobalAlloc(hp, GMEM_FIXED, n) }
clone_from_slice_impl(hp, bytes, has_free) ==
    LET n == Len(bytes)
    IN  { IF h = NULL /\ n > 0
          THEN [crash |-> TRUE, h |-> h, region |-> FreeRegion, w |-> NoGStr]
          ELSE [crash |-> FALSE, h |-> h,
                region |-> [state |-> "alloc", bytes |-> bytes],
                w |-> GStr(h, n, has_free)]
          : h \in GlobalAlloc(hp, GMEM_FIXED, n) }

\* GStr::clone_from_slice_nofree
clone_from_slice_free(hp, bytes) == clone_from_slice_impl(hp, bytes, TRUE)
clone_from_slice_nofree(hp, bytes) == clone_from_slice_impl(hp, bytes, FALSE)

(* ------------------------------- Init ---------------------------------- *)
\* A Result that no call has produced yet.
Unset == [ok |-> FALSE, val |-> <<>>, err |-> "unset", valid_up_to |-> 0, error_len |-> 0]

\* gstr_test: the block run, its text or bytes, and its locals
TestIdle == [pc |-> "idle", block |-> "none", text |-> <<>>, bytes |-> <<>>,
             src_str |-> Unset, n |-> 0, dst_str |-> Unset, to_str |-> Unset,
             panicked |-> FALSE]

Init ==
    /\ heap = [h \in Handles |-> FreeRegion]
    /\ gstr = [i \in Slots |-> NoGStr]
    /\ live = {}
    /\ held = NoHeld
    /\ last = NoLast
    /\ crashed = FALSE
    /\ hist = [i \in Slots |-> NoHist]
    /\ captures = [h \in Handles |-> 0]
    /\ doubleFree = {}
    /\ test = TestIdle

Call(op, i) == [NoLast EXCEPT !.op = op, !.slot = i]

(* ------------------------------ the calls ------------------------------ *)
\* let <slot i> = GStr::clone_from_slice_nofree(bytes)
CloneFromSliceNofree(i, bytes) ==
    /\ ~crashed
    /\ i \notin live
    /\ \E o \in clone_from_slice_nofree(heap, bytes) :
          /\ crashed' = o.crash
          /\ last' = [Call("clone_from_slice_nofree", i) EXCEPT !.alloc = o.h]
          /\ IF o.crash
             THEN UNCHANGED <<heap, gstr, live, hist>>
             ELSE /\ heap' = IF o.h = NULL THEN heap
                             ELSE [heap EXCEPT ![o.h] = o.region]
                  /\ gstr' = [gstr EXCEPT ![i] = o.w]
                  /\ live' = live \cup {i}
                  /\ hist' = [hist EXCEPT
                                 ![i] = [how |-> "clone", n |-> Len(bytes), B |-> bytes,
                                         stale |-> FALSE]]
    /\ UNCHANGED <<held, captures, doubleFree>>

\* let <slot i> = GStr::capture(h, len), on the pair the caller holds
Capture(i) ==
    /\ ~crashed
    /\ i \notin live
    /\ held.set
    /\ gstr' = [gstr EXCEPT ![i] = capture(held.h, held.len)]
    /\ live' = live \cup {i}
    /\ hist' = [hist EXCEPT ![i] = [how |-> "capture", n |-> held.len, B |-> held.B,
                                    stale |-> held.stale]]
    /\ captures' = IF held.h \in Handles /\ captures[held.h] < 2
                   THEN [captures EXCEPT ![held.h] = @ + 1] ELSE captures
    /\ last' = Call("capture", i)
    /\ UNCHANGED <<heap, held, crashed, doubleFree>>

\* GlobalFree(h) on heap hp: the region is released; a handle that is not
\* allocated is not the heap's to free (the call fails or faults); NULL is ignored.
GlobalFree(hp, h) ==
    IF h = NULL THEN {[heap |-> hp, fault |-> FALSE]}
    ELSE IF hp[h].state = "alloc"
         THEN {[heap |-> [hp EXCEPT ![h] = FreeRegion], fault |-> FALSE]}
         ELSE {[heap |-> hp, fault |-> FALSE], [heap |-> hp, fault |-> TRUE]}

\* <slot i> goes out of scope: Drop::drop, then the value is gone
Drop(i) ==
    /\ ~crashed
    /\ i \in live
    /\ LET w == gstr[i]
           calls == drop(w)
           \* history: a capturing wrapper goes, and with it the handle's region
           released == hist[i].how = "capture" /\ w.h # NULL
       IN  /\ IF calls = <<>>
              THEN UNCHANGED <<heap, crashed, doubleFree>>
              ELSE \E o \in GlobalFree(heap, calls[1]) :
                      /\ heap' = o.heap
                      /\ crashed' = o.fault
                      /\ doubleFree' = IF calls[1] \in Handles
                                           /\ heap[calls[1]].state # "alloc"
                                        THEN doubleFree \cup {calls[1]} ELSE doubleFree
           /\ last' = [Call("drop", i) EXCEPT !.freed = calls]
           /\ hist' = [j \in Slots |->
                          IF j = i THEN NoHist
                          ELSE IF released /\ j \in live /\ gstr[j].h = w.h
                               THEN [hist[j] EXCEPT !.stale = TRUE, !.B = <<>>]
                               ELSE hist[j]]
           /\ held' = IF released /\ held.set /\ held.h = w.h
                      THEN [held EXCEPT !.stale = TRUE, !.B = <<>>] ELSE held
    /\ gstr' = [gstr EXCEPT ![i] = NoGStr]
    /\ live' = live \ {i}
    /\ UNCHANGED captures

\* let h = <slot i>.handle(); let n = <slot i>.len(): the caller keeps the pair
Handle_transfer(i) ==
    /\ ~crashed
    /\ i \in live
    /\ held' = [set |-> TRUE, h |-> handle(gstr[i]), len |-> len(gstr[i]),
                B |-> hist[i].B, stale |-> hist[i].stale]
    /\ last' = [Call("handle", i) EXCEPT !.ret = handle(gstr[i])]
    /\ gstr' = [gstr EXCEPT ![i].has_free = FALSE]
    /\ UNCHANGED <<heap, live, crashed, hist, captures, doubleFree>>
Handle(i) ==
    /\ ~crashed
    /\ i \in live
    /\ held' = [set |-> TRUE, h |-> handle(gstr[i]), len |-> len(gstr[i]),
                B |-> hist[i].B, stale |-> hist[i].stale]
    /\ last' = [Call("handle", i) EXCEPT !.ret = handle(gstr[i])]
    /\ UNCHANGED <<heap, gstr, live, crashed, hist, captures, doubleFree>>

\* <slot i>.len()
GetLen(i) ==
    /\ ~crashed
    /\ i \in live
    /\ last' = [Call("len", i) EXCEPT !.ret = len(gstr[i])]
    /\ UNCHANGED <<heap, gstr, live, held, crashed, hist, captures, doubleFree>>

\* What a reading call makes of the bytes to_bytes gave it.
Convert(op, bytes) ==
    CASE op = "to_utf8_str" -> to_utf8_str(bytes)
      [] op = "to_ansi_str" -> to_ansi_str(bytes)
      [] OTHER -> bytes

\* A call that reads the wrapper's bytes: to_bytes, to_utf8_str, to_ansi_str.
ReadCall(op, i) ==
    /\ ~crashed
    /\ i \in live
    /\ \E o \in to_bytes(heap, gstr[i]) :
          /\ crashed' = o.fault
          /\ last' = IF o.fault THEN Call(op, i)
                     ELSE [Call(op, i) EXCEPT !.ret = Convert(op, o.bytes)]
    /\ UNCHANGED <<heap, gstr, live, held, hist, captures, doubleFree>>

\* <slot i>.to_bytes()
ToBytes(i) == ReadCall("to_bytes", i)

\* <slot i>.to_utf8_str()
ToUtf8Str(i) == ReadCall("to_utf8_str", i)

\* <slot i>.to_ansi_str()
ToAnsiStr(i) == ReadCall("to_ansi_str", i)

(* ------------------------ any caller of the type ----------------------- *)
Next ==
    \/ \E i \in Slots, bytes \in ByteInputs :
           CloneFromSliceNofree(i, bytes) /\ UNCHANGED test
    \/ \E i \in Slots : Capture(i) /\ UNCHANGED test
    \/ \E i \in Slots : Drop(i) /\ UNCHANGED test
    \/ \E i \in Slots : Handle(i) /\ UNCHANGED test
    \/ \E i \in Slots : GetLen(i) /\ UNCHANGED test
    \/ \E i \in Slots : ToBytes(i) /\ UNCHANGED test
    \/ \E i \in Slots : ToUtf8Str(i) /\ UNCHANGED test
    \/ \E i \in Slots : ToAnsiStr(i) /\ UNCHANGED test

Spec == Init /\ [][Next]_vars

(* ------------------------------ gstr_test ------------------------------ *)
\* The two blocks of gstr_test, for any text in place of the test's literal:
\* "utf8" (the first block) and "ansi" (the second).  Block "raw" is the first
\* block over any bytes, by a caller that keeps each Result instead of
\* unwrapping it.  src is slot 1 and dst is slot 2.
Blocks == {"utf8", "ansi", "raw"}

InitTest ==
    /\ heap = [h \in Handles |-> FreeRegion]
    /\ gstr = [i \in Slots |-> NoGStr]
    /\ live = {}
    /\ held = NoHeld
    /\ last = NoLast
    /\ crashed = FALSE
    /\ hist = [i \in Slots |-> NoHist]
    /\ captures = [h \in Handles |-> 0]
    /\ doubleFree = {}
    /\ test \in {[TestIdle EXCEPT !.pc = "start", !.block = b, !.text = t] :
                    b \in {"utf8", "ansi"}, t \in Texts}
           \cup {[TestIdle EXCEPT !.pc = "start", !.block = "raw", !.bytes = r] :
                    r \in RawInputs}

Goto(pc) == [test EXCEPT !.pc = pc]
Panic(pc) == [test EXCEPT !.pc = pc, !.panicked = TRUE]

\* text.as_bytes(), or Encoding::ANSI.to_bytes(text).unwrap()
TestEncode ==
    /\ ~crashed
    /\ test.pc = "start"
    /\ test' = CASE test.block = "utf8" ->
                      [Goto("clone") EXCEPT !.bytes = as_bytes(test.text)]
                 [] test.block = "ansi" ->
                      LET sjis == Encoding_to_bytes(test.text)
                      IN  IF sjis.ok THEN [Goto("clone") EXCEPT !.bytes = sjis.val]
                          ELSE Panic("done")
                 [] OTHER -> Goto("clone")
    /\ UNCHANGED <<heap, gstr, live, held, last, crashed, hist, captures, doubleFree>>

\* let src = GStr::clone_from_slice_nofree(bytes)
TestClone ==
    /\ test.pc = "clone"
    /\ CloneFromSliceNofree(1, test.bytes)
    /\ test' = IF crashed' THEN Goto("done")
               ELSE IF test.block = "ansi" THEN Goto("len") ELSE Goto("src_str")

\* src.to_utf8_str().unwrap(), or src.to_ansi_str().unwrap()
TestSrcStr ==
    /\ test.pc = "src_str"
    /\ IF test.block = "ansi" THEN ToAnsiStr(1) ELSE ToUtf8Str(1)
    /\ test' = IF crashed' THEN Goto("done")
               ELSE IF ~last'.ret.ok /\ test.block # "raw"
                    THEN [Panic("drop_src") EXCEPT !.src_str = last'.ret]
                    ELSE [Goto(IF test.block = "ansi" THEN "handle" ELSE "len")
                             EXCEPT !.src_str = last'.ret]

\* src.len()
TestLen ==
    /\ test.pc = "len"
    /\ GetLen(1)
    /\ test' = [Goto(IF test.block = "ansi" THEN "src_str" ELSE "handle")
                   EXCEPT !.n = last'.ret]

\* the arguments of GStr::capture(src.handle(), src.len())
TestHandle ==
    /\ test.pc = "handle"
    /\ Handle(1)
    /\ test' = Goto("capture")

\* let dst = GStr::capture(src.handle(), src.len())
TestCapture ==
    /\ test.pc = "capture"
    /\ Capture(2)
    /\ test' = Goto("dst_str")

\* dst.to_utf8_str().unwrap(), or dst.to_ansi_str().unwrap()
TestDstStr ==
    /\ test.pc = "dst_str"
    /\ IF test.block = "ansi" THEN ToAnsiStr(2) ELSE ToUtf8Str(2)
    /\ test' = IF crashed' THEN Goto("done")
               ELSE IF ~last'.ret.ok /\ test.block # "raw"
                    THEN [Panic("drop_dst") EXCEPT !.dst_str = last'.ret]
                    ELSE [Goto(IF test.block = "ansi" THEN "to_str" ELSE "drop_dst")
                             EXCEPT !.dst_str = last'.ret]

\* let src_str = src_osstr.to_str().unwrap()
TestToStr ==
    /\ ~crashed
    /\ test.pc = "to_str"
    /\ LET r == OsStr_to_str(test.src_str.val)
       IN  test' = IF r.ok THEN [Goto("drop_dst") EXCEPT !.to_str = Ok(r.val)]
                   ELSE Panic("drop_dst")
    /\ UNCHANGED <<heap, gstr, live, held, last, crashed, hist, captures, doubleFree>>

\* the end of the block: dst is dropped first, then src
TestDropDst ==
    /\ test.pc = "drop_dst"
    /\ Drop(2)
    /\ test' = IF crashed' THEN Goto("done") ELSE Goto("drop_src")

TestDropSrc ==
    /\ test.pc = "drop_src"
    /\ Drop(1)
    /\ test' = Goto("done")

NextTest ==
    \/ TestEncode
    \/ TestClone
    \/ TestSrcStr
    \/ TestLen
    \/ TestHandle
    \/ TestCapture
    \/ TestDstStr
    \/ TestToStr
    \/ TestDropDst
    \/ TestDropSrc

SpecTest == InitTest /\ [][NextTest]_vars

(* ============================== the claims ============================= *)
Owners(h) == {i \in live : gstr[i].h = h /\ gstr[i].has_free}
Captured(h) == {i \in live : gstr[i].h = h /\ hist[i].how = "capture"}
ReadOps == {"handle", "len", "to_bytes", "to_utf8_str", "to_ansi_str"}

\* The byte slices of the decoding scenario that are valid UTF-8: over 0x47,
\* 0x80 and 0xE3 these are the encodings of the texts of 'G' and U+3000.
IsUtf8(b) == \E t \in SeqsUpTo({71, 12288}, MaxRawLen) : as_bytes(t) = b
\* The length of the longest prefix of b that is valid UTF-8.
ValidUpTo(b) ==
    CHOOSE k \in 0..Len(b) :
        /\ IsUtf8(SubSeq(b, 1, k))
        /\ \A j \in (k + 1)..Len(b) : ~IsUtf8(SubSeq(b, 1, j))

\* C1: a drop releases the wrapper's handle if and only if has_free is set:
\* dropping an owning wrapper makes exactly one GlobalFree call, on its own
\* handle, and changes no other region; dropping a non-owning wrapper makes no
\* GlobalFree call and leaves every region as it was.
C1_DropReleasesIffOwns ==
    [][\A i \in Slots :
          (i \in live /\ i \notin live') =>
              /\ last'.op = "drop"
              /\ IF gstr[i].has_free
                 THEN /\ last'.freed = <<gstr[i].h>>
                      /\ \A k \in Handles \ {gstr[i].h} : heap'[k] = heap[k]
                      /\ gstr[i].h \in Handles => heap'[gstr[i].h].state = "free"
                 ELSE /\ last'.freed = <<>>
                      /\ heap' = heap]_vars

\* C1's case: an owning wrapper was dropped and its region is released.
C1_Witness ==
    /\ last.op = "drop"
    /\ last.freed # <<>>
    /\ last.freed[1] \in Handles
    /\ heap[last.freed[1]].state = "free"
    /\ ~crashed

\* C2: the region clone_from_slice_nofree(B) made stays allocated and holds B,
\* whether or not the cloning wrapper is still alive, until a capturing wrapper
\* over its handle is dropped: the (handle, len) pair the caller kept still
\* names B, and a wrapper captured from it reads exactly B through to_bytes.
C2_RegionOutlivesNofreeWrapper ==
    /\ (held.set /\ ~held.stale /\ held.h # NULL) =>
           /\ heap[held.h].state = "alloc"
           /\ heap[held.h].bytes = held.B
    /\ \A i \in live :
           (hist[i].how = "capture" /\ ~hist[i].stale /\ gstr[i].h # NULL) =>
               /\ heap[gstr[i].h].state = "alloc"
               /\ to_bytes(heap, gstr[i]) = {Read(hist[i].B)}

\* C2's case: the cloning wrapper is gone, and the capturing wrapper over its
\* handle has just read the bytes that were cloned.
C2_Witness ==
    \E i \in live :
        /\ hist[i].how = "capture" /\ ~hist[i].stale /\ gstr[i].h # NULL
        /\ hist[i].B # <<>>
        /\ \A j \in live : hist[j].how # "clone"
        /\ last.op = "to_bytes" /\ last.slot = i /\ ~crashed
        /\ last.ret = hist[i].B

\* C3 as claimed: every live GStr's handle refers to a region that is
\* allocated now and has at least len bytes.  (The null handle of a failed
\* allocation is C9's; it is left out here so that the violation shown does
\* not rest on it.)
C3_Original ==
    \A i \in live :
        gstr[i].h # NULL =>
            /\ heap[gstr[i].h].state = "alloc"
            /\ Len(heap[gstr[i].h].bytes) >= gstr[i].len

\* C3 as amended: a live GStr over whose handle no capturing (owning) wrapper
\* has been dropped since the handle was obtained reads allocated memory only:
\* its handle is null with len 0, or refers to an allocated region of at least
\* len bytes, and to_bytes gives exactly the bytes stored at construction.
C3_Amended ==
    \A i \in live :
        ~hist[i].stale =>
            /\ gstr[i].h = NULL => gstr[i].len = 0
            /\ gstr[i].h # NULL =>
                   /\ heap[gstr[i].h].state = "alloc"
                   /\ Len(heap[gstr[i].h].bytes) >= gstr[i].len
            /\ to_bytes(heap, gstr[i]) = {Read(hist[i].B)}

\* C3's case: a wrapper is live, with bytes to read, after another was dropped.
C3_Witness ==
    \E i \in live :
        /\ ~hist[i].stale /\ gstr[i].h # NULL /\ gstr[i].len > 0
        /\ last.op = "drop" /\ last.freed # <<>>

\* C4 as claimed: every handle a live wrapper holds has exactly one live
\* owning wrapper, and no handle is released twice.
C4_Original ==
    /\ \A i \in live : gstr[i].h # NULL => Cardinality(Owners(gstr[i].h)) = 1
    /\ doubleFree = {}

\* C4 as amended: the live owning wrappers over a handle are exactly the live
\* wrappers made by capture over it, none after clone_from_slice_nofree alone,
\* and more than one only when the handle was captured more than once; a
\* handle is released while not allocated only if it was captured more than once.
C4_Amended ==
    \A h \in Handles :
        /\ Owners(h) = Captured(h)
        /\ Cardinality(Owners(h)) > 1 => captures[h] = 2
        /\ h \in doubleFree => captures[h] = 2

\* C4's case: two live owning wrappers over one handle.
C4_Witness ==
    \E h \in Handles : Cardinality(Owners(h)) = 2 /\ heap[h].state = "alloc"

\* C5: len() of a live wrapper is the length given to its constructor (n of
\* capture(h, n), the byte count of B of clone_from_slice_nofree(B)), at every
\* point of its life.
C5_LenIsConstructionLength ==
    /\ \A i \in live : len(gstr[i]) = hist[i].n
    /\ (last.op = "len" /\ ~crashed) => last.ret = hist[last.slot].n

\* C5's case: len() was called on a captured wrapper with bytes, while the
\* wrapper it was captured from is gone.
C5_Witness ==
    /\ last.op = "len"
    /\ hist[last.slot].how = "capture"
    /\ last.ret = MaxLen
    /\ Cardinality(live) = 1

\* C6: in the first block of gstr_test, for every text, to_utf8_str of
\* clone_from_slice_nofree(text.as_bytes()) succeeds with the text, and so
\* does to_utf8_str of the wrapper captured over the same handle and length.
C6_Utf8RoundTrip ==
    test.block = "utf8" =>
        /\ ~test.panicked
        /\ test.src_str.err # "unset" => test.src_str = Ok(test.text)
        /\ test.dst_str.err # "unset" => test.dst_str = Ok(test.text)

\* C6's case: a text with a three-byte character came back from both wrappers.
C6_Witness ==
    /\ test.block = "utf8"
    /\ Len(test.text) = MaxTextLen
    /\ \E k \in 1..Len(test.text) : test.text[k] = 12288
    /\ test.src_str = Ok(test.text)
    /\ test.dst_str = Ok(test.text)

\* C7: in the second block of gstr_test, for every text the converter can
\* encode, to_ansi_str of clone_from_slice_nofree(encode(text)) succeeds with
\* the platform text of the text, the wrapper captured over the same handle
\* and length gives the same platform text, and that text reads back as text.
C7_LegacyRoundTrip ==
    test.block = "ansi" =>
        /\ test.panicked => ~Encoding_to_bytes(test.text).ok
        /\ test.src_str.err # "unset" => test.src_str = Ok(OsString_from(test.text))
        /\ test.dst_str.err # "unset" => test.dst_str = test.src_str
        /\ test.to_str.err # "unset" => test.to_str = Ok(test.text)

\* C7's case: a text with a two-byte legacy character came back.
C7_Witness ==
    /\ test.block = "ansi"
    /\ Len(test.text) = MaxTextLen
    /\ \E k \in 1..Len(test.text) : test.text[k] = 12288
    /\ Len(test.bytes) > Len(test.text)
    /\ test.dst_str = Ok(OsString_from(test.text))
    /\ test.to_str = Ok(test.text)

\* C8: to_utf8_str of a wrapper whose bytes are not valid UTF-8 returns
\* GStrError::Utf8Error with the length of the longest valid prefix, no text,
\* and leaves the wrapper and the heap as they were.
C8_InvalidUtf8IsAnError ==
    [][(/\ test.block = "raw"
        /\ test.pc \in {"src_str", "dst_str"}
        /\ ~IsUtf8(test.bytes)
        /\ ~crashed') =>
           /\ ~last'.ret.ok
           /\ last'.ret.err = "Utf8Error"
           /\ last'.ret.valid_up_to = ValidUpTo(test.bytes)
           /\ last'.ret.val = <<>>
           /\ gstr' = gstr /\ live' = live /\ heap' = heap]_vars

\* C8's case: the bytes 'G', 0x80 (or longer) were refused at position 1.
C8_Witness ==
    /\ test.block = "raw"
    /\ ~IsUtf8(test.bytes)
    /\ test.src_str.err = "Utf8Error"
    /\ test.src_str.valid_up_to = 1
    /\ test.dst_str.err = "Utf8Error"

\* C9: when GlobalAlloc fails, clone_from_slice_nofree does not return: the
\* process is stopped (the code reports no allocation failure).
C9_NoWrapperOverFailedAlloc ==
    (last.op = "clone_from_slice_nofree" /\ last.alloc = NULL) => crashed

\* C10: handle(), len(), to_bytes(), to_utf8_str() and to_ansi_str() leave
\* every wrapper's handle, length and ownership flag, the set of live
\* wrappers and every heap region as they were.
C10_ReadsChangeNothing ==
    [][last'.op \in ReadOps => (gstr' = gstr /\ live' = live /\ heap' = heap)]_vars

\* C10's case: handle() was called on an owning wrapper, which still owns.
C10_Witness ==
    /\ last.op = "handle"
    /\ last.slot \in live
    /\ gstr[last.slot].has_free
    /\ last.ret = gstr[last.slot].h
    /\ last.ret \in Handles
    /\ heap[last.ret].state = "alloc"

====
